---- MODULE Spec2Model ----
(***************************************************************************)
(* Model of 01-Macroeconomics/Code/solow_model.py: the SolowModel class    *)
(* (constructor, production, capital_accumulation, steady_state,           *)
(* plot_phase_data) and the slider callback of interactive_phase_diagram.  *)
(*                                                                         *)
(* Numbers.  A float is modelled as an exact fraction [num, den]; den = 0  *)
(* encodes the IEEE specials (1/0 = inf, -1/0 = -inf, 0/0 = nan).  All     *)
(* inputs are drawn from grids on which every power the code takes is      *)
(* exact (alpha = 1/2 and 3/4 with capital levels that are fourth powers), *)
(* so no rounding happens and the fractions are the values the code        *)
(* computes; a power that is not exact stops TLC (CHOOSE over the empty    *)
(* set) instead of being rounded.  Signed zeros and overflow are left out. *)
(*                                                                         *)
(* Scalar type.  A Python float raises ZeroDivisionError where a numpy     *)
(* float64 returns inf or nan, and returns a complex number where numpy    *)
(* returns nan.  Which of the two a caller (or a Slider's val) hands in is *)
(* not fixed by this file, so it is the variable `scalar`, chosen in Init. *)
(* An array argument (np.linspace) always has numpy semantics.             *)
(***************************************************************************)
EXTENDS Integers, Sequences, FiniteSets, TLC

VARIABLES
    scalar,                 \* "float" | "float64": type of the scalars handed to the class
    model,                  \* the SolowModel object: its six attributes
    ret,                    \* the last call on `model`: operation, argument, outcome
    sliders,                \* .val of s_slider, delta_slider, n_slider, g_slider, alpha_slider
    invest_line,            \* ydata of invest_line
    break_even_line,        \* ydata of break_even_line
    ax_lines,               \* the axvline artists on ax: sequence of [id, x]
    steady_state_line_obj,  \* steady_state_line_obj[0]: id of the artist it refers to
    raised                  \* kind of the exception the last update() ended with, or "none"

vars == <<scalar, model, ret, sliders, invest_line, break_even_line, ax_lines,
          steady_state_line_obj, raised>>
coreVars == <<model, ret>>
uiVars == <<sliders, invest_line, break_even_line, ax_lines, steady_state_line_obj, raised>>

----------------------------------------------------------------------------
(* Bounds of the model *)

\* capital levels are (i/2)^4, i up to MaxK
MaxK == 3
\* longest k_values array handed to plot_phase_data
MaxLen == 2

----------------------------------------------------------------------------
(* Exact fractions with the IEEE specials *)

Abs(i) == IF i < 0 THEN 0 - i ELSE i
Sign(i) == IF i < 0 THEN 0 - 1 ELSE IF i = 0 THEN 0 ELSE 1

RECURSIVE GCD(_, _)
GCD(a, b) == IF b = 0 THEN a ELSE GCD(b, a % b)

RECURSIVE IPow(_, _)
IPow(b, e) == IF e = 0 THEN 1 ELSE b * IPow(b, e - 1)

\* the fraction n/d in lowest terms, d > 0; n/0 is inf, -inf or nan by the sign of n
Norm(n, d) ==
    IF d = 0 THEN [num |-> Sign(n), den |-> 0]
    ELSE LET g == GCD(Abs(n), Abs(d))
         IN  [num |-> Sign(d) * (n \div g), den |-> Abs(d) \div g]

Rat(n, d) == Norm(n, d)
Zero == Rat(0, 1)
One == Rat(1, 1)
Inf == [num |-> 1, den |-> 0]
NegInf == [num |-> 0 - 1, den |-> 0]
NaN == [num |-> 0, den |-> 0]

IsNaN(a) == a.den = 0 /\ a.num = 0
IsFinite(a) == a.den # 0

\* float addition: inf + -inf = nan, inf + x = inf
Add(a, b) ==
    IF IsNaN(a) \/ IsNaN(b) THEN NaN
    ELSE IF a.den = 0 /\ b.den = 0 THEN (IF a = b THEN a ELSE NaN)
    ELSE IF a.den = 0 THEN a
    ELSE IF b.den = 0 THEN b
    ELSE Norm(a.num * b.den + b.num * a.den, a.den * b.den)

Neg(a) == [num |-> 0 - a.num, den |-> a.den]
Sub(a, b) == Add(a, Neg(b))

\* float multiplication: inf * 0 = nan
Mul(a, b) == Norm(a.num * b.num, a.den * b.den)

\* IEEE division: x/0 = +-inf, 0/0 = nan, x/inf = 0
IEEEDiv(a, b) ==
    IF b.num < 0 THEN Norm((0 - a.num) * b.den, a.den * (0 - b.num))
    ELSE Norm(a.num * b.den, a.den * b.num)

Less(a, b) ==
    /\ ~IsNaN(a) /\ ~IsNaN(b) /\ a # b
    /\ \/ a = NegInf
       \/ b = Inf
       \/ IsFinite(a) /\ IsFinite(b) /\ a.num * b.den < b.num * a.den

\* the exact q-th root of a natural number that is a perfect q-th power
RECURSIVE RootFrom(_, _, _)
RootFrom(n, q, r) == IF IPow(r, q) >= n THEN r ELSE RootFrom(n, q, r + 1)
IRoot(n, q) == CHOOSE r \in {RootFrom(n, q, 0)} : IPow(r, q) = n

----------------------------------------------------------------------------
(* Outcomes of an evaluation: a returned float, a returned complex number, *)
(* or a raised exception                                                    *)

Val(v) == [kind |-> "value", val |-> v]
Exc(name) == [kind |-> name, val |-> NaN]

\* x ** p for an integer p and a finite x (x # 0 when p < 0)
RatPowInt(x, p) ==
    IF p >= 0 THEN Norm(IPow(x.num, p), IPow(x.den, p))
    ELSE Norm(IPow(x.den, 0 - p), IPow(x.num, 0 - p))

RatRoot(x, q) == [num |-> IRoot(x.num, q), den |-> IRoot(x.den, q)]

AbsRat(x) == [num |-> Abs(x.num), den |-> x.den]
IsOddInteger(e) == e.den = 1 /\ e.num % 2 = 1

\* C pow(), which numpy's ** is
IEEEPow(x, e) ==
    IF e = Zero \/ x = One THEN One
    ELSE IF IsNaN(x) \/ IsNaN(e) THEN NaN
    ELSE IF e.den = 0 THEN
        IF AbsRat(x) = One THEN One
        ELSE IF Less(AbsRat(x), One) = (e = Inf) THEN Zero ELSE Inf
    ELSE IF x = Zero THEN (IF e.num > 0 THEN Zero ELSE Inf)
    ELSE IF x = Inf THEN (IF e.num > 0 THEN Inf ELSE Zero)
    ELSE IF x = NegInf THEN
        IF e.num < 0 THEN Zero ELSE IF IsOddInteger(e) THEN NegInf ELSE Inf
    ELSE IF x.num < 0 /\ e.den # 1 THEN NaN
    ELSE IF e.den = 1 THEN RatPowInt(x, e.num)
    ELSE RatPowInt(RatRoot(x, e.den), e.num)

\* a / b on scalars of type ty: a Python float raises on a zero divisor
Div(ty, a, b) ==
    IF ty = "float" /\ b = Zero THEN Exc("ZeroDivisionError")
    ELSE Val(IEEEDiv(a, b))

\* x ** e on operands of type ty: a Python float raises on 0.0 ** negative and
\* returns a complex number for a negative base with a fractional exponent
Pow(ty, x, e) ==
    IF ty = "float" /\ x = Zero /\ IsFinite(e) /\ e.num < 0
        THEN Exc("ZeroDivisionError")
    ELSE IF ty = "float" /\ IsFinite(x) /\ x.num < 0 /\ IsFinite(e) /\ e.den > 1
        THEN Exc("complex")
    ELSE Val(IEEEPow(x, e))

----------------------------------------------------------------------------
(* class SolowModel *)

\* __init__: the five parameters and the combined rate n + g + delta
SolowModel(s, delta, n, g, alpha) ==
    [s |-> s, delta |-> delta, n |-> n, g |-> g, alpha |-> alpha,
     lambda_factor |-> Add(Add(n, g), delta)]

\* k ** self.alpha
production(self, k, ty) == Pow(ty, k, self.alpha)

\* mutant: the break-even term added instead of subtracted
capital_accumulation_plus(self, k, ty) ==
    LET f == Pow(ty, k, self.alpha)
    IN  IF f.kind # "value" THEN f
        ELSE Val(Add(Mul(self.s, f.val), Mul(self.lambda_factor, k)))

\* self.s * self.production(k) - self.lambda_factor * k
capital_accumulation(self, k, ty) ==
    LET f == production(self, k, ty)
    IN  IF f.kind # "value" THEN f
        ELSE Val(Sub(Mul(self.s, f.val), Mul(self.lambda_factor, k)))

\* mutant: the ratio inverted, (lambda_factor / s) ** (1 / (1 - alpha))
steady_state_inverted(self, ty) ==
    LET base == Div(ty, self.lambda_factor, self.s)
        expo == Div(ty, One, Sub(One, self.alpha))
    IN  IF base.kind # "value" THEN base
        ELSE IF expo.kind # "value" THEN expo
        ELSE Pow(ty, base.val, expo.val)

\* mutant: the division by lambda_factor left out, s ** (1 / (1 - alpha))
steady_state_no_ratio(self, ty) ==
    LET expo == Div(ty, One, Sub(One, self.alpha))
    IN  IF expo.kind # "value" THEN expo
        ELSE Pow(ty, self.s, expo.val)

\* (self.s / self.lambda_factor) ** (1 / (1 - self.alpha))
steady_state(self, ty) ==
    LET base == Div(ty, self.s, self.lambda_factor)
        expo == Div(ty, One, Sub(One, self.alpha))
    IN  IF base.kind # "value" THEN base
        ELSE IF expo.kind # "value" THEN expo
        ELSE Pow(ty, base.val, expo.val)

\* mutant: the two curves returned in the other order
plot_phase_data_swapped(self, kv) ==
    [invest |-> [i \in 1..Len(kv) |-> Mul(self.lambda_factor, kv[i])],
     break_even |-> [i \in 1..Len(kv) |-> Mul(self.s, Pow("ndarray", kv[i], self.alpha).val)]]

\* invest = self.s * self.production(k_values); break_even = self.lambda_factor * k_values
\* (k_values is a numpy array: elementwise, IEEE semantics)
plot_phase_data(self, kv) ==
    [invest |-> [i \in 1..Len(kv) |-> Mul(self.s, production(self, kv[i], "ndarray").val)],
     break_even |-> [i \in 1..Len(kv) |-> Mul(self.lambda_factor, kv[i])]]

----------------------------------------------------------------------------
(* Input grids *)

ScalarTypes == {"float", "float64"}
SGrid == {Zero, Rat(1, 2), One}
DeltaGrid == {Rat(0 - 1, 10), Zero, Rat(1, 10)}
GrowthGrid == {Zero, Rat(1, 10)}
AlphaGrid == {Zero, Rat(1, 2), Rat(3, 4), One, Rat(2, 1)}
KGrid == {Rat(IPow(i, 4), 16) : i \in 0..MaxK}

\* the arrays of at most MaxLen consecutive capital levels of the grid, in
\* increasing order (as np.linspace lays them out), the empty array included
RECURSIVE SortedSeq(_)
SortedSeq(S) ==
    IF S = {} THEN <<>>
    ELSE LET m == CHOOSE x \in S : \A y \in S : y = x \/ Less(x, y)
         IN  <<m>> \o SortedSeq(S \ {m})
KArrays ==
    LET all == SortedSeq(KGrid)
    IN  {SubSeq(all, w[1], w[1] + w[2] - 1) :
            w \in {v \in (1..Len(all)) \X (0..MaxLen) : v[1] + v[2] - 1 <= Len(all)}}

NoCall == [op |-> "none", arg |-> <<>>, k |-> <<>>, out |-> Val(Zero), invest |-> <<>>, break_even |-> <<>>]

----------------------------------------------------------------------------
(* Calls on the SolowModel object.  ret.arg is the argument as the caller  *)
(* passed it, ret.k the caller's argument object once the call is over.    *)

\* a scalar capital level: one of the grid, or the k* the last steady_state() returned
KScalars ==
    KGrid \cup (IF ret.op = "steady_state" /\ ret.out.kind = "value"
                THEN {ret.out.val} ELSE {})

\* obj.<attr> = v from outside the class: the attributes are plain instance
\* attributes, and lambda_factor is assigned in __init__ only
SetAttr ==
    \E attr \in {"s", "delta", "n", "g", "alpha"} :
        \E v \in (CASE attr = "s" -> SGrid
                    [] attr = "delta" -> DeltaGrid
                    [] attr = "alpha" -> AlphaGrid
                    [] OTHER -> GrowthGrid) :
            /\ v # model[attr]
            /\ model' = [model EXCEPT ![attr] = v]
            /\ ret' = NoCall
            /\ UNCHANGED <<scalar, uiVars>>

Call_production ==
    \E k \in KScalars :
        /\ ret' = [op |-> "production", arg |-> <<k>>, k |-> <<k>>,
                   out |-> production(model, k, scalar),
                   invest |-> <<>>, break_even |-> <<>>]
        /\ UNCHANGED <<scalar, model, uiVars>>

Call_capital_accumulation ==
    \E k \in KScalars :
        /\ ret' = [op |-> "capital_accumulation", arg |-> <<k>>, k |-> <<k>>,
                   out |-> capital_accumulation(model, k, scalar),
                   invest |-> <<>>, break_even |-> <<>>]
        /\ UNCHANGED <<scalar, model, uiVars>>

Call_steady_state ==
    /\ ret' = [op |-> "steady_state", arg |-> <<>>, k |-> <<>>,
               out |-> steady_state(model, scalar),
               invest |-> <<>>, break_even |-> <<>>]
    /\ UNCHANGED <<scalar, model, uiVars>>

\* mutant: the break-even curve computed in place, k_values *= self.lambda_factor
Call_plot_phase_data_inplace ==
    \E kv \in KArrays :
        /\ ret' = [op |-> "plot_phase_data", arg |-> kv,
                   k |-> [i \in 1..Len(kv) |-> Mul(model.lambda_factor, kv[i])],
                   out |-> Val(Zero),
                   invest |-> [i \in 1..Len(kv) |->
                                  Mul(model.s, Pow("ndarray", kv[i], model.alpha).val)],
                   break_even |-> [i \in 1..Len(kv) |-> Mul(model.lambda_factor, kv[i])]]
        /\ UNCHANGED <<scalar, model, uiVars>>

Call_plot_phase_data ==
    \E kv \in KArrays :
        LET pd == plot_phase_data(model, kv)
        IN  /\ ret' = [op |-> "plot_phase_data", arg |-> kv, k |-> kv,
                       out |-> Val(Zero),
                       invest |-> pd.invest, break_even |-> pd.break_even]
            /\ UNCHANGED <<scalar, model, uiVars>>

----------------------------------------------------------------------------
(* interactive_phase_diagram *)

\* the initial parameter values s0, delta0, n0, g0, alpha0 (0.3, 0.05, 0.02, 0.02,
\* 0.33 in the source, whose powers are not exact): the grid's stand-ins
s0 == Rat(1, 2)
delta0 == Rat(1, 10)
n0 == Rat(1, 10)
g0 == Rat(1, 10)
alpha0 == Rat(1, 2)

InRange(v, lo, hi) == ~Less(v, lo) /\ ~Less(hi, v)

\* np.linspace(0, 10, 300): the grid's capital levels between 0 and 10
k_values == SortedSeq({k \in KGrid : InRange(k, Zero, Rat(10, 1))})

\* the values each Slider can take (valmin, valmax)
SliderRange(name) ==
    CASE name = "s" -> {v \in SGrid : InRange(v, Zero, One)}
      [] name = "delta" -> {v \in DeltaGrid : InRange(v, Zero, Rat(2, 10))}
      [] name = "n" -> {v \in GrowthGrid : InRange(v, Zero, Rat(1, 10))}
      [] name = "g" -> {v \in GrowthGrid : InRange(v, Zero, Rat(1, 10))}
      [] name = "alpha" -> {v \in AlphaGrid : InRange(v, Rat(1, 10), Rat(9, 10))}

SliderNames == {"s", "delta", "n", "g", "alpha"}

\* a free artist id
FreshId(lines) == CHOOSE i \in 0..Len(lines) : \A j \in 1..Len(lines) : lines[j].id # i

\* Artist.remove(): the artist leaves the axes
Remove(lines, id) == SelectSeq(lines, LAMBDA l : l.id # id)

\* ax.axvline(x): a new artist on the axes
Axvline(lines, x) == Append(lines, [id |-> FreshId(lines), x |-> x])

\* update(val), run by the slider that changed with the five current values sl
update(sl) ==
    LET new_model == SolowModel(sl.s, sl.delta, sl.n, sl.g, sl.alpha)
        pd == plot_phase_data(new_model, k_values)
        ss == steady_state(new_model, scalar)
        removed == Remove(ax_lines, steady_state_line_obj)
    IN  /\ invest_line' = pd.invest
        /\ break_even_line' = pd.break_even
        /\ IF ss.kind = "value"
           THEN /\ ax_lines' = Axvline(removed, ss.val)
                /\ steady_state_line_obj' = FreshId(removed)
                /\ raised' = "none"
           ELSE IF ss.kind = "complex"
           THEN \* a complex k* (no slider range yields one): the old line is
                \* removed, then axvline rejects the position
                /\ ax_lines' = removed
                /\ steady_state_line_obj' = steady_state_line_obj
                /\ raised' = "TypeError"
           ELSE \* steady_state() raised: nothing after it runs
                /\ ax_lines' = ax_lines
                /\ steady_state_line_obj' = steady_state_line_obj
                /\ raised' = ss.kind

\* a slider is moved: its val changes and its on_changed callback runs
on_changed ==
    \E name \in SliderNames :
        \E v \in SliderRange(name) :
            /\ v # sliders[name]
            /\ sliders' = [sliders EXCEPT ![name] = v]
            /\ update(sliders')
            /\ UNCHANGED <<scalar, coreVars>>

----------------------------------------------------------------------------
(* Specifications *)

\* the diagram as interactive_phase_diagram() sets it up before plt.show()
InitUI ==
    LET m == SolowModel(s0, delta0, n0, g0, alpha0)
        pd == plot_phase_data(m, k_values)
    IN  /\ sliders = [s |-> s0, delta |-> delta0, n |-> n0, g |-> g0, alpha |-> alpha0]
        /\ invest_line = pd.invest
        /\ break_even_line = pd.break_even
        /\ ax_lines = Axvline(<<>>, steady_state(m, "float").val)
        /\ steady_state_line_obj = 0
        /\ raised = "none"

Init ==
    /\ scalar \in ScalarTypes
    /\ \E s \in SGrid, delta \in DeltaGrid, n \in GrowthGrid, g \in GrowthGrid,
          alpha \in AlphaGrid : model = SolowModel(s, delta, n, g, alpha)
    /\ ret = NoCall
    /\ InitUI

Next ==
    \/ SetAttr
    \/ Call_production
    \/ Call_capital_accumulation
    \/ Call_steady_state
    \/ Call_plot_phase_data

Spec == Init /\ [][Next]_vars

InitDiagram ==
    /\ scalar \in ScalarTypes
    /\ model = SolowModel(s0, delta0, n0, g0, alpha0)
    /\ ret = NoCall
    /\ InitUI

NextUI == on_changed

SpecUI == InitDiagram /\ [][NextUI]_vars

----------------------------------------------------------------------------
(* Properties *)

Raised(o) == o.kind \notin {"value", "complex"}
Positive(x) == Less(Zero, x)

\* s > 0, lambda_factor > 0, 0 < alpha < 1
Valid(m) == Positive(m.s) /\ Positive(m.lambda_factor) /\ Positive(m.alpha) /\ Less(m.alpha, One)

\* y = k ** alpha, stated without taking a root: y >= 0 and y^den = k^num
IsPower(y, k, alpha) ==
    /\ ~Less(y, Zero)
    /\ RatPowInt(y, alpha.den) = RatPowInt(k, alpha.num)

\* C1: in every reachable state of a model object, also after n, g or delta was
\* assigned on it, lambda_factor equals n + g + delta of that object.
C1_LambdaFactorNeverStale ==
    model.lambda_factor = Add(Add(model.n, model.g), model.delta)

\* C2: whenever lambda_factor <= 0, steady_state() ends in an error and returns
\* no number, no inf and no nan.
C2_DegenerateDilutionRaises ==
    (ret.op = "steady_state" /\ ~Positive(model.lambda_factor)) => Raised(ret.out)

\* C3: with alpha outside (0,1) on a constructed model, a call of production,
\* capital_accumulation, steady_state or plot_phase_data ends in an error and
\* returns no value.
C3_InvalidShareRaises ==
    (ret.op # "none" /\ ~(Positive(model.alpha) /\ Less(model.alpha, One)))
        => Raised(ret.out)

\* C4: for a valid parameter set steady_state() returns a k* with
\* capital_accumulation(k*) = s*k*^alpha - lambda_factor*k* = 0, exactly; and
\* s = 0.5, lambda_factor = 0.1, alpha = 0.5 gives k* = 25.
C4_SteadyStateIsFixedPoint ==
    Valid(model) =>
        /\ ret.op = "steady_state" =>
            /\ ret.out.kind = "value"
            /\ capital_accumulation(model, ret.out.val, scalar) = Val(Zero)
            /\ Sub(Mul(model.s, RatPowInt(RatRoot(ret.out.val, model.alpha.den),
                                          model.alpha.num)),
                   Mul(model.lambda_factor, ret.out.val)) = Zero
        /\ (ret.op = "capital_accumulation"
              /\ ret.arg = <<steady_state(model, scalar).val>>) => ret.out = Val(Zero)
        /\ (ret.op = "steady_state" /\ model.s = Rat(1, 2)
              /\ model.lambda_factor = Rat(1, 10) /\ model.alpha = Rat(1, 2))
             => ret.out = Val(Rat(25, 1))

C4_Witness ==
    /\ Valid(model)
    /\ model.s = Rat(1, 2) /\ model.lambda_factor = Rat(1, 10) /\ model.alpha = Rat(1, 2)
    /\ ret.op = "capital_accumulation"
    /\ ret.arg = <<Rat(25, 1)>>
    /\ ret.out = Val(Zero)

\* C5: plot_phase_data(k_values) returns two sequences of the length of k_values,
\* the empty one included, with invest[i] = s * k_values[i]^alpha and
\* break_even[i] = lambda_factor * k_values[i], in the input's order.
C5_PhaseCurvesElementwise ==
    ret.op = "plot_phase_data" =>
        /\ Len(ret.invest) = Len(ret.arg)
        /\ Len(ret.break_even) = Len(ret.arg)
        /\ \A i \in 1..Len(ret.arg) :
            /\ \E y \in {production(model, ret.arg[i], "ndarray").val} :
                  /\ IsPower(y, ret.arg[i], model.alpha)
                  /\ ret.invest[i] = Mul(model.s, y)
            /\ ret.break_even[i] = Mul(model.lambda_factor, ret.arg[i])

C5_Witness ==
    /\ ret.op = "plot_phase_data"
    /\ Len(ret.arg) = MaxLen
    /\ ret.arg[1] # Zero
    /\ model.alpha = Rat(1, 2)
    /\ Positive(model.s) /\ Positive(model.lambda_factor)
    /\ ret.invest # ret.break_even

C5_EmptyWitness ==
    ret.op = "plot_phase_data" /\ ret.arg = <<>> /\ ret.invest = <<>> /\ ret.break_even = <<>>

\* what a call of op with argument arg returns on object m when run alone
Alone(m, op, arg, ty) ==
    CASE op = "production" ->
            [out |-> production(m, arg[1], ty), invest |-> <<>>, break_even |-> <<>>]
      [] op = "capital_accumulation" ->
            [out |-> capital_accumulation(m, arg[1], ty), invest |-> <<>>, break_even |-> <<>>]
      [] op = "steady_state" ->
            [out |-> steady_state(m, ty), invest |-> <<>>, break_even |-> <<>>]
      [] op = "plot_phase_data" ->
            LET pd == plot_phase_data(m, arg)
            IN  [out |-> Val(Zero), invest |-> pd.invest, break_even |-> pd.break_even]

LambdaGrid == {l \in {Add(Add(n, g), d) : n \in GrowthGrid, g \in GrowthGrid, d \in DeltaGrid} :
                 Positive(l)}

\* C7: for a fixed alpha in (0,1), steady_state() is strictly larger for a
\* larger s > 0 at the same lambda_factor > 0, and strictly smaller for a larger
\* lambda_factor > 0 at the same s > 0.
C7_SteadyStateMonotone ==
    (ret.op = "steady_state" /\ Valid(model)) =>
        /\ \A s2 \in SGrid :
              Less(model.s, s2) =>
                 Less(ret.out.val, steady_state([model EXCEPT !.s = s2], scalar).val)
        /\ \A l2 \in LambdaGrid :
              Less(model.lambda_factor, l2) =>
                 Less(steady_state([model EXCEPT !.lambda_factor = l2], scalar).val,
                      ret.out.val)

C7_Witness ==
    /\ ret.op = "steady_state" /\ Valid(model)
    /\ model.s = Rat(1, 2) /\ model.lambda_factor = Rat(1, 10)
    /\ ret.out = Val(Rat(25, 1))

\* C8: for s > 0, lambda_factor > 0 and 0 < alpha < 1 the steady state k* exists,
\* is positive, and capital_accumulation(k) is > 0 for 0 < k < k*, < 0 for
\* k > k*, and 0 only at k = k*.
C8_UniquePositiveRoot ==
    (ret.op = "capital_accumulation" /\ Valid(model) /\ Positive(ret.arg[1])) =>
        LET ks == steady_state(model, scalar)
            k == ret.arg[1]
        IN  /\ ks.kind = "value" /\ Positive(ks.val) /\ IsFinite(ks.val)
            /\ ret.out.kind = "value"
            /\ Less(k, ks.val) => Positive(ret.out.val)
            /\ Less(ks.val, k) => Less(ret.out.val, Zero)
            /\ ret.out.val = Zero => k = ks.val

C8_Witness ==
    /\ ret.op = "capital_accumulation" /\ Valid(model)
    /\ Positive(ret.arg[1])
    /\ Less(steady_state(model, scalar).val, ret.arg[1])
    /\ Less(ret.out.val, Zero)

\* the model built from the five sliders' current values
SliderModel == SolowModel(sliders.s, sliders.delta, sliders.n, sliders.g, sliders.alpha)

\* the rendering of parameter tuple m: both curves and one line at its k*
Renders(m) ==
    /\ invest_line = plot_phase_data(m, k_values).invest
    /\ break_even_line = plot_phase_data(m, k_values).break_even
    /\ steady_state(m, scalar).kind = "value"
    /\ Len(ax_lines) = 1
    /\ ax_lines[1].id = steady_state_line_obj
    /\ ax_lines[1].x = steady_state(m, scalar).val

\* C9: after any sequence of slider changes, once the last update() is over, both
\* curves and the steady-state line are those of a model built from the five
\* sliders' current values, and the plot holds exactly one steady-state line.
C9_RenderMatchesSliders == Renders(SliderModel)

\* C10: update() is atomic with respect to the rendering: in every reachable
\* state both curves and the steady-state line derive from one parameter tuple.
C10_RenderFromOneTuple ==
    \E s \in SliderRange("s"), delta \in SliderRange("delta"), n \in SliderRange("n"),
       g \in SliderRange("g"), alpha \in SliderRange("alpha") :
        Renders(SolowModel(s, delta, n, g, alpha))

====
